---- MODULE Spec2Model ----
(***************************************************************************)
(* Model of internal/data/cache.go (package data) of howar31/go-story:     *)
(* the Cache wrapper around a Redis client, its constructor NewCache, the  *)
(* operations Enabled, Close, Get, Set and Delete, and the JSON codec the  *)
(* operations pass values through.  src/unnamed/part_000 is the same file  *)
(* with a log.Printf on every branch; the "log" fields below are the       *)
(* branch names of those log lines.                                        *)
(***************************************************************************)
EXTENDS Integers, Sequences, FiniteSets, TLC

(***************************************************************************)
(* Bounds of the model.                                                    *)
(***************************************************************************)
\* Cap on the number of commands (GET/SET/DEL) sent through the client.
MaxCalls == 3
\* Cap on the number of client.Close() calls made by Cache.Close.
MaxCloses == 2

\* The goroutines that call into the one Cache instance.
Callers == {"g1", "g2"}
Keys == {"k1", "k2"}

(***************************************************************************)
(* Go values that callers pass to Set and GenerateCacheKey.  A string is   *)
(* its sequence of bytes; a map[string]interface{} is a function from key  *)
(* byte sequences to values; a []interface{} is a sequence of values.      *)
(***************************************************************************)
GoFloat(n) == [t |-> "float64", n |-> n]
GoInt(n) == [t |-> "int", n |-> n]
GoString(bytes) == [t |-> "string", s |-> bytes]
GoSlice(elems) == [t |-> "slice", e |-> elems]
GoMap(m) == [t |-> "map", m |-> m]
GoNil == [t |-> "nil"]
GoChan == [t |-> "chan"]
NoVal == [t |-> "none"]

\* "é" in UTF-8, a lone 0xFF byte (not valid UTF-8), and the key "id".
StrEAcute == <<195, 169>>
StrBadByte == <<255>>
StrId == <<105, 100>>
\* U+FFFD, the Unicode replacement rune, in UTF-8.
ReplacementRune == <<239, 191, 189>>

VUnicode == GoString(StrEAcute)
VBadUTF8 == GoString(StrBadByte)
VMapInt == GoMap([k \in {StrId} |-> GoInt(1)])
VNested ==
    GoMap([k \in {StrId} |-> GoSlice(<<GoString(StrEAcute), GoFloat(1), GoMap(<<>>)>>)])

Values == {VUnicode, VBadUTF8, VMapInt, VNested, GoChan}

\* Destination shapes a caller hands to Get: *interface{}, *int, *string,
\* *map[string]interface{}.
Shapes == {"any", "int", "string", "map"}

\* The static type a caller would declare to receive v back.
ShapeOf(v) == IF v.t \in Shapes THEN v.t ELSE "any"

(***************************************************************************)
(* encoding/json.  The encoded text is a sequence of JSON tokens.          *)
(***************************************************************************)
Tok(k) == [tk |-> k]
TokNum(n) == [tk |-> "num", n |-> n]
TokStr(bytes) == [tk |-> "str", s |-> bytes]

IsCont(b) == b >= 128 /\ b <= 191

\* unicode/utf8.DecodeRune: the length of the valid encoding that starts at
\* s[i], or 0 when s[i] begins no valid encoding (RuneError, width 1).
RuneLen(s, i) ==
    LET b == s[i]
        n == Len(s) - i + 1
        lo2 == IF b = 224 THEN 160 ELSE IF b = 240 THEN 144 ELSE 128
        hi2 == IF b = 237 THEN 159 ELSE IF b = 244 THEN 143 ELSE 191
        second == n >= 2 /\ s[i + 1] >= lo2 /\ s[i + 1] <= hi2
    IN  IF b < 128 THEN 1
        ELSE IF b >= 194 /\ b <= 223
             THEN IF n >= 2 /\ IsCont(s[i + 1]) THEN 2 ELSE 0
        ELSE IF b >= 224 /\ b <= 239
             THEN IF second /\ n >= 3 /\ IsCont(s[i + 2]) THEN 3 ELSE 0
        ELSE IF b >= 240 /\ b <= 244
             THEN IF second /\ n >= 4 /\ IsCont(s[i + 2]) /\ IsCont(s[i + 3])
                  THEN 4 ELSE 0
        ELSE 0

\* Variant of the string encoder that takes every byte above 0x7F for an
\* invalid one.
RECURSIVE CoerceASCII(_, _)
CoerceASCII(s, i) ==
    IF i > Len(s) THEN <<>>
    ELSE IF s[i] >= 128 THEN ReplacementRune \o CoerceASCII(s, i + 1)
    ELSE <<s[i]>> \o CoerceASCII(s, i + 1)

\* The string encoder: every byte that starts no valid rune is written as
\* U+FFFD; everything else is written (escaped) and reads back as itself.
RECURSIVE CoerceUTF8(_, _)
CoerceUTF8(s, i) ==
    IF i > Len(s) THEN <<>>
    ELSE LET w == RuneLen(s, i)
         IN  IF w = 0 THEN ReplacementRune \o CoerceUTF8(s, i + 1)
             ELSE SubSeq(s, i, i + w - 1) \o CoerceUTF8(s, i + w)

\* Byte-wise order of two strings (map keys are written sorted).
RECURSIVE LexLess(_, _)
LexLess(a, b) ==
    IF b = <<>> THEN FALSE
    ELSE IF a = <<>> THEN TRUE
    ELSE IF Head(a) # Head(b) THEN Head(a) < Head(b)
    ELSE LexLess(Tail(a), Tail(b))

MinKey(ks) == CHOOSE k \in ks : \A o \in ks \ {k} : LexLess(k, o)

Supported(v) == v.t # "chan"

RECURSIVE Encode(_), EncodeElems(_, _), EncodeMembers(_, _), CanEncode(_)
\* json.Marshal fails with UnsupportedTypeError on a channel at any depth.
CanEncode(v) ==
    IF v.t = "slice" THEN \A i \in 1 .. Len(v.e) : CanEncode(v.e[i])
    ELSE IF v.t = "map" THEN \A k \in DOMAIN v.m : CanEncode(v.m[k])
    ELSE Supported(v)

EncodeElems(e, i) ==
    IF i > Len(e) THEN <<>>
    ELSE (IF i > 1 THEN <<Tok("comma")>> ELSE <<>>)
         \o Encode(e[i]) \o EncodeElems(e, i + 1)

EncodeMembers(m, ks) ==
    IF ks = {} THEN <<>>
    ELSE LET k == MinKey(ks)
         IN  (IF ks # DOMAIN m THEN <<Tok("comma")>> ELSE <<>>)
             \o <<TokStr(CoerceUTF8(k, 1)), Tok("colon")>>
             \o Encode(m[k]) \o EncodeMembers(m, ks \ {k})

Encode(v) ==
    CASE v.t = "nil" -> <<Tok("null")>>
      [] v.t = "bool" -> <<[tk |-> "bool", b |-> v.b]>>
      [] v.t = "int" -> <<TokNum(v.n)>>
      [] v.t = "float64" -> <<TokNum(v.n)>>
      [] v.t = "string" -> <<TokStr(CoerceUTF8(v.s, 1))>>
      [] v.t = "slice" -> <<Tok("lbrack")>> \o EncodeElems(v.e, 1) \o <<Tok("rbrack")>>
      [] v.t = "map" -> <<Tok("lbrace")>> \o EncodeMembers(v.m, DOMAIN v.m)
                        \o <<Tok("rbrace")>>
      [] OTHER -> <<>>

NoErr == "nil"
ErrMarshal == "marshal cache value"
ErrUnmarshal == "unmarshal cache value"

\* json.Marshal(value): (data, err).
Marshal(v) ==
    IF CanEncode(v) THEN [err |-> NoErr, data |-> Encode(v)]
    ELSE [err |-> "json: unsupported type", data |-> <<>>]

ParseFail == [ok |-> FALSE, v |-> NoVal, next |-> 0]

RECURSIVE ParseValue(_, _), ParseElems(_, _, _), ParseMembers(_, _, _)
\* The decoder into interface{}: numbers become float64, arrays
\* []interface{}, objects map[string]interface{}.
ParseValue(d, i) ==
    IF i > Len(d) THEN ParseFail
    ELSE LET t == d[i]
         IN  CASE t.tk = "null" -> [ok |-> TRUE, v |-> GoNil, next |-> i + 1]
               [] t.tk = "bool" ->
                    [ok |-> TRUE, v |-> [t |-> "bool", b |-> t.b], next |-> i + 1]
               [] t.tk = "num" -> [ok |-> TRUE, v |-> GoFloat(t.n), next |-> i + 1]
               [] t.tk = "str" -> [ok |-> TRUE, v |-> GoString(t.s), next |-> i + 1]
               [] t.tk = "lbrack" ->
                    IF i + 1 <= Len(d) /\ d[i + 1].tk = "rbrack"
                    THEN [ok |-> TRUE, v |-> GoSlice(<<>>), next |-> i + 2]
                    ELSE ParseElems(d, i + 1, <<>>)
               [] t.tk = "lbrace" ->
                    IF i + 1 <= Len(d) /\ d[i + 1].tk = "rbrace"
                    THEN [ok |-> TRUE, v |-> GoMap(<<>>), next |-> i + 2]
                    ELSE ParseMembers(d, i + 1, <<>>)
               [] OTHER -> ParseFail

ParseElems(d, i, acc) ==
    LET r == ParseValue(d, i)
    IN  IF ~r.ok \/ r.next > Len(d) THEN ParseFail
        ELSE IF d[r.next].tk = "rbrack"
             THEN [ok |-> TRUE, v |-> GoSlice(Append(acc, r.v)), next |-> r.next + 1]
        ELSE IF d[r.next].tk = "comma"
             THEN ParseElems(d, r.next + 1, Append(acc, r.v))
        ELSE ParseFail

ParseMembers(d, i, acc) ==
    IF i + 1 > Len(d) \/ d[i].tk # "str" \/ d[i + 1].tk # "colon" THEN ParseFail
    ELSE LET r == ParseValue(d, i + 2)
             m == [k \in DOMAIN acc \cup {d[i].s} |->
                      IF k = d[i].s THEN r.v ELSE acc[k]]
         IN  IF ~r.ok \/ r.next > Len(d) THEN ParseFail
             ELSE IF d[r.next].tk = "rbrace"
                  THEN [ok |-> TRUE, v |-> GoMap(m), next |-> r.next + 1]
             ELSE IF d[r.next].tk = "comma" THEN ParseMembers(d, r.next + 1, m)
             ELSE ParseFail

\* What a fresh destination of the shape holds: JSON null leaves it alone.
ZeroValue(shape) ==
    CASE shape = "int" -> GoInt(0)
      [] shape = "float64" -> GoFloat(0)
      [] shape = "string" -> GoString(<<>>)
      [] shape = "slice" -> [t |-> "slice", isnil |-> TRUE]
      [] shape = "map" -> [t |-> "map", isnil |-> TRUE]
      [] OTHER -> GoNil

\* json.Unmarshal(data, dest) for a fresh dest of the given shape: (value
\* left in dest, err).  A JSON value of another kind than the destination is
\* an UnmarshalTypeError.
Unmarshal(d, shape) ==
    LET r == ParseValue(d, 1)
        bad == [err |-> "json: cannot unmarshal", v |-> NoVal]
    IN  IF ~r.ok \/ r.next # Len(d) + 1 THEN bad
        ELSE IF shape = "any" THEN [err |-> NoErr, v |-> r.v]
        ELSE IF r.v.t = "nil" THEN [err |-> NoErr, v |-> ZeroValue(shape)]
        ELSE IF shape = "int"
             THEN IF r.v.t = "float64" THEN [err |-> NoErr, v |-> GoInt(r.v.n)] ELSE bad
        ELSE IF r.v.t = shape THEN [err |-> NoErr, v |-> r.v]
        ELSE bad

(***************************************************************************)
(* encoding/json, the text.  GenerateCacheKey hashes the bytes that        *)
(* json.Marshal writes; the tokens of Encode are the tokens of this text.  *)
(***************************************************************************)
hex == <<48, 49, 50, 51, 52, 53, 54, 55, 56, 57, 97, 98, 99, 100, 101, 102>>

\* strconv.AppendInt(b, n, 10); a float64 with an integral value is written
\* the same way.
RECURSIVE Digits(_)
Digits(n) == IF n < 10 THEN <<48 + n>> ELSE Digits(n \div 10) \o <<48 + (n % 10)>>
Itoa(n) == IF n < 0 THEN <<45>> \o Digits(-n) ELSE Digits(n)

\* The encoder's string writer (escapeHTML on): a quote and a backslash get a
\* backslash; LF, CR and TAB their short form; the other control bytes and
\* <, > and & the form backslash-u-00xx; a byte that starts no valid rune is
\* written as the six characters backslash-u-fffd; U+2028 and U+2029 as
\* backslash-u-2028 and backslash-u-2029.
RECURSIVE AppendString(_, _)
AppendString(s, i) ==
    IF i > Len(s) THEN <<>>
    ELSE LET b == s[i]
             w == RuneLen(s, i)
         IN  IF b \in {34, 92} THEN <<92, b>> \o AppendString(s, i + 1)
             ELSE IF b = 10 THEN <<92, 110>> \o AppendString(s, i + 1)
             ELSE IF b = 13 THEN <<92, 114>> \o AppendString(s, i + 1)
             ELSE IF b = 9 THEN <<92, 116>> \o AppendString(s, i + 1)
             ELSE IF b < 32 \/ b \in {38, 60, 62}
                  THEN <<92, 117, 48, 48, hex[(b \div 16) + 1], hex[(b % 16) + 1]>>
                       \o AppendString(s, i + 1)
             ELSE IF w = 0 THEN <<92, 117, 102, 102, 102, 100>> \o AppendString(s, i + 1)
             ELSE IF w = 3 /\ b = 226 /\ s[i + 1] = 128 /\ s[i + 2] \in {168, 169}
                  THEN <<92, 117, 50, 48, 50, hex[(s[i + 2] % 16) + 1]>>
                       \o AppendString(s, i + 3)
             ELSE SubSeq(s, i, i + w - 1) \o AppendString(s, i + w)

Quote(s) == <<34>> \o AppendString(s, 1) \o <<34>>

RECURSIVE EncodeText(_), EncodeTextElems(_, _), EncodeTextMembers(_, _)
EncodeTextElems(e, i) ==
    IF i > Len(e) THEN <<>>
    ELSE (IF i > 1 THEN <<44>> ELSE <<>>) \o EncodeText(e[i]) \o EncodeTextElems(e, i + 1)

EncodeTextMembers(m, ks) ==
    IF ks = {} THEN <<>>
    ELSE LET k == MinKey(ks)
         IN  (IF ks # DOMAIN m THEN <<44>> ELSE <<>>)
             \o Quote(k) \o <<58>> \o EncodeText(m[k]) \o EncodeTextMembers(m, ks \ {k})

EncodeText(v) ==
    CASE v.t = "nil" -> <<110, 117, 108, 108>>
      [] v.t = "bool" -> IF v.b THEN <<116, 114, 117, 101>> ELSE <<102, 97, 108, 115, 101>>
      [] v.t = "int" -> Itoa(v.n)
      [] v.t = "float64" -> Itoa(v.n)
      [] v.t = "string" -> Quote(v.s)
      [] v.t = "slice" -> <<91>> \o EncodeTextElems(v.e, 1) \o <<93>>
      [] v.t = "map" -> <<123>> \o EncodeTextMembers(v.m, DOMAIN v.m) \o <<125>>
      [] OTHER -> <<>>

\* json.Marshal(params): (data, err), data as bytes.
MarshalText(v) ==
    IF CanEncode(v) THEN [err |-> NoErr, data |-> EncodeText(v)]
    ELSE [err |-> "json: unsupported type", data |-> <<>>]

(***************************************************************************)
(* crypto/sha256.  A 32-bit word is the pair <<high, low>> of its 16-bit   *)
(* halves, so that no intermediate sum leaves the 32-bit integers.         *)
(***************************************************************************)
RECURSIVE BitXor(_, _, _), BitAnd(_, _, _)
BitXor(a, b, k) ==
    IF k = 0 THEN 0 ELSE ((a + b) % 2) + 2 * BitXor(a \div 2, b \div 2, k - 1)
BitAnd(a, b, k) ==
    IF k = 0 THEN 0 ELSE ((a % 2) * (b % 2)) + 2 * BitAnd(a \div 2, b \div 2, k - 1)

WXor(x, y) == <<BitXor(x[1], y[1], 16), BitXor(x[2], y[2], 16)>>
WAnd(x, y) == <<BitAnd(x[1], y[1], 16), BitAnd(x[2], y[2], 16)>>
WNot(x) == <<65535 - x[1], 65535 - x[2]>>
WAdd(x, y) ==
    LET lo == x[2] + y[2]
        hi == x[1] + y[1] + (lo \div 65536)
    IN  <<hi % 65536, lo % 65536>>

\* bits.RotateLeft32(x, -n) and x >> n.
RotR(x, n) ==
    LET a == IF n >= 16 THEN x[2] ELSE x[1]
        b == IF n >= 16 THEN x[1] ELSE x[2]
        m == n % 16
    IN  <<(a \div 2^m) + (b % 2^m) * 2^(16 - m),
          (b \div 2^m) + (a % 2^m) * 2^(16 - m)>>
ShR(x, n) ==
    IF n >= 16 THEN <<0, x[1] \div 2^(n - 16)>>
    ELSE <<x[1] \div 2^n, (x[2] \div 2^n) + (x[1] % 2^n) * 2^(16 - n)>>

\* The initial hash value and the round constants.
sha256Init == <<
    <<27145, 58983>>, <<47975, 44677>>, <<15470, 62322>>, <<42319, 62778>>,
    <<20750, 21119>>, <<39685, 26764>>, <<8067, 55723>>, <<23520, 52505>>>>
sha256K == <<
    <<17034, 12184>>, <<28983, 17553>>, <<46528, 64463>>, <<59829, 56229>>,
    <<14678, 49755>>, <<23025, 4593>>, <<37439, 33444>>, <<43804, 24277>>,
    <<55303, 43672>>, <<4739, 23297>>, <<9265, 34238>>, <<21772, 32195>>,
    <<29374, 23924>>, <<32990, 45566>>, <<39900, 1703>>, <<49563, 61812>>,
    <<58523, 27073>>, <<61374, 18310>>, <<4033, 40390>>, <<9228, 41420>>,
    <<11753, 11375>>, <<19060, 33962>>, <<23728, 43484>>, <<30457, 35034>>,
    <<38974, 20818>>, <<43057, 50797>>, <<45059, 10184>>, <<48985, 32711>>,
    <<50912, 3059>>, <<54695, 37191>>, <<1738, 25425>>, <<5161, 10599>>,
    <<10167, 2693>>, <<11803, 8504>>, <<19756, 28156>>, <<21304, 3347>>,
    <<25866, 29524>>, <<30314, 2747>>, <<33218, 51502>>, <<37490, 11397>>,
    <<41663, 59553>>, <<43034, 26187>>, <<49739, 35696>>, <<51052, 20899>>,
    <<53650, 59417>>, <<54937, 1572>>, <<62478, 13701>>, <<4202, 41072>>,
    <<6564, 49430>>, <<7735, 27656>>, <<10056, 30540>>, <<13488, 48309>>,
    <<14620, 3251>>, <<20184, 43594>>, <<23452, 51791>>, <<26670, 28659>>,
    <<29839, 33518>>, <<30885, 25455>>, <<33992, 30740>>, <<36039, 520>>,
    <<37054, 65530>>, <<42064, 27883>>, <<48889, 41975>>, <<50801, 30962>>>>

\* The message followed by 0x80, zero bytes up to 56 mod 64, and the length
\* in bits as a 64-bit big-endian number.
Pad(msg) ==
    LET n == Len(msg)
        z == (119 - (n % 64)) % 64
        bits == 8 * n
    IN  msg \o <<128>> \o [i \in 1 .. z |-> 0] \o <<0, 0, 0, 0>>
        \o <<(bits \div 16777216) % 256, (bits \div 65536) % 256,
             (bits \div 256) % 256, bits % 256>>

\* The sixteen big-endian words of the 64-byte block that starts at p[off+1].
BlockWords(p, off) ==
    [j \in 1 .. 16 |-> <<p[off + 4 * j - 3] * 256 + p[off + 4 * j - 2],
                         p[off + 4 * j - 1] * 256 + p[off + 4 * j]>>]

SmallSigma0(x) == WXor(WXor(RotR(x, 7), RotR(x, 18)), ShR(x, 3))
SmallSigma1(x) == WXor(WXor(RotR(x, 17), RotR(x, 19)), ShR(x, 10))

RECURSIVE Schedule(_)
Schedule(w) ==
    IF Len(w) = 64 THEN w
    ELSE Schedule(Append(w, WAdd(WAdd(SmallSigma1(w[Len(w) - 1]), w[Len(w) - 6]),
                                 WAdd(SmallSigma0(w[Len(w) - 14]), w[Len(w) - 15]))))

BigSigma0(a) == WXor(WXor(RotR(a, 2), RotR(a, 13)), RotR(a, 22))
BigSigma1(e) == WXor(WXor(RotR(e, 6), RotR(e, 11)), RotR(e, 25))
Ch(e, f, g) == WXor(WAnd(e, f), WAnd(WNot(e), g))
Maj(a, b, c) == WXor(WXor(WAnd(a, b), WAnd(a, c)), WAnd(b, c))

\* One round: h is the working variables a..h, t1 and t2 the two sums.
Shift(h, t1, t2) ==
    <<WAdd(t1, t2), h[1], h[2], h[3], WAdd(h[4], t1), h[5], h[6], h[7]>>
Round(h, k, w) ==
    Shift(h, WAdd(WAdd(WAdd(h[8], BigSigma1(h[5])), WAdd(Ch(h[5], h[6], h[7]), k)), w),
          WAdd(BigSigma0(h[1]), Maj(h[1], h[2], h[3])))

RECURSIVE Rounds(_, _)
Rounds(s, w) ==
    IF s.i > 64 THEN s.h
    ELSE Rounds([i |-> s.i + 1, h |-> Round(s.h, sha256K[s.i], w[s.i])], w)

RECURSIVE Blocks(_, _, _)
Blocks(h, p, off) ==
    IF off >= Len(p) THEN h
    ELSE LET r == Rounds([i |-> 1, h |-> h], Schedule(BlockWords(p, off)))
         IN  Blocks([j \in 1 .. 8 |-> WAdd(h[j], r[j])], p, off + 64)

\* sha256.Sum256(data): the 32 bytes of the digest.
Sum256(data) ==
    LET h == Blocks(sha256Init, Pad(data), 0)
    IN  [i \in 1 .. 32 |->
            LET half == h[(i + 3) \div 4][IF (i - 1) % 4 < 2 THEN 1 ELSE 2]
            IN  IF i % 2 = 1 THEN half \div 256 ELSE half % 256]

\* encoding/hex.EncodeToString: two lower-case digits for a byte.
hextable == <<48, 49, 50, 51, 52, 53, 54, 55, 56, 57, 97, 98, 99, 100, 101, 102>>
RECURSIVE EncodeToString(_)
EncodeToString(src) ==
    IF src = <<>> THEN <<>>
    ELSE <<hextable[(Head(src) \div 16) + 1], hextable[(Head(src) % 16) + 1]>>
         \o EncodeToString(Tail(src))

(***************************************************************************)
(* The collaborators: redis.ParseURL, the client (a connection handle) and *)
(* the remote store behind it.                                             *)
(***************************************************************************)
URL(scheme, host) == [scheme |-> scheme, host |-> host]
EmptyURL == URL("", "")
URLs == {EmptyURL, URL("http", "cache:6379"), URL("redis", "cache:6379")}
TTLSeconds == {0, 60}

\* redis.ParseURL accepts the redis, rediss and unix schemes only.
ParseURL(u) ==
    IF u.scheme \in {"redis", "rediss", "unix"}
    THEN [err |-> NoErr, opt |-> u.host]
    ELSE [err |-> "redis: invalid URL scheme", opt |-> ""]

NULL == "nil"
Client == "client"
Absent == [data |-> <<>>, exp |-> -1, src |-> NoVal]
RedisNil == "redis.Nil"
ErrClosed == "redis: client is closed"
ErrTimeout == "i/o timeout"
NotCreated == [cache |-> NULL, err |-> NoErr, log |-> "not called"]
Idle == [op |-> "idle"]
NoRet == [op |-> "none", bool |-> FALSE, err |-> NoErr, val |-> NoVal, log |-> ""]
NoKey == [prefix |-> <<>>, params |-> NoVal, key |-> <<>>, enabled |-> FALSE]

VARIABLES
    client,     \* Cache.client: NULL or the handle
    enabled,    \* Cache.enabled
    ttl,        \* Cache.ttl, in seconds
    args,       \* the arguments NewCache was called with, and the ping's answer
    newRet,     \* what NewCache returned: (cache, err) and the branch it logged
    opened,     \* number of redis.NewClient calls
    pings,      \* number of client.Ping calls
    closes,     \* number of client.Close calls
    calls,      \* number of Get/Set/Del commands issued through the client
    store,      \* the remote store: key -> entry (data, expiry, value it encodes)
    cur,        \* per caller, the operation in progress
    lastRet,    \* the most recent return of an operation
    failed,     \* some operation has seen a store error other than redis.Nil
    stale,      \* goroutines whose reads of c.enabled still miss the last write
    keyRet,     \* the last GenerateCacheKey call: its arguments and result
    keyPrev     \* the GenerateCacheKey call before it

vars == <<client, enabled, ttl, args, newRet, opened, pings, closes, calls,
          store, cur, lastRet, failed, stale, keyRet, keyPrev>>

\* What the model holds beside the instance, the client and the store.
keyVars == <<keyRet, keyPrev>>

created == newRet # NotCreated

\* func (c *Cache) Enabled() bool
Enabled == enabled /\ client # NULL

\* c.enabled is a plain bool that Get, Set and Delete write and every
\* operation reads with no lock or atomic: a read by a goroutine that no
\* happens-before edge orders after the write may still see the old true.
FlagSeenBy(c) == IF c \in stale THEN TRUE ELSE enabled

\* Enabled() as goroutine c evaluates it.
EnabledSeenBy(c) == FlagSeenBy(c) /\ client # NULL

Init ==
    /\ client = NULL
    /\ enabled = FALSE
    /\ ttl = 0
    /\ args = [redisURL |-> EmptyURL, enabled |-> FALSE, ttlSeconds |-> 0,
               pingOK |-> FALSE]
    /\ newRet = NotCreated
    /\ opened = 0
    /\ pings = 0
    /\ closes = 0
    /\ calls = 0
    /\ store = [k \in Keys |-> Absent]
    /\ cur = [c \in Callers |-> Idle]
    /\ lastRet = NoRet
    /\ failed = FALSE
    /\ stale = {}
    /\ keyRet = NoKey
    /\ keyPrev = NoKey

(***************************************************************************)
(* NewCache.                                                               *)
(***************************************************************************)
\* Variants of NewCache with a slip in one branch.
\* The enabled argument is not looked at.
NewCacheIgnoresFlag(redisURL, en, ttlSeconds, pingOK) ==
    LET cache == [client |-> NULL, enabled |-> FALSE, ttl |-> ttlSeconds,
                  opened |-> 0, pings |-> 0, closes |-> 0,
                  ret |-> "cache", err |-> NoErr, log |-> ""]
    IN  IF redisURL = EmptyURL THEN [cache EXCEPT !.log = "disabled (REDIS_URL not set)"]
        ELSE IF ParseURL(redisURL).err # NoErr
             THEN [cache EXCEPT !.log = "failed to parse URL"]
        ELSE IF ~pingOK
             THEN [cache EXCEPT !.opened = 1, !.pings = 1, !.closes = 1,
                                !.log = "connection failed"]
        ELSE [cache EXCEPT !.opened = 1, !.pings = 1, !.client = Client,
                           !.enabled = TRUE, !.log = "enabled"]

\* The parse error is returned to the caller.
NewCacheReturnsParseError(redisURL, en, ttlSeconds, pingOK) ==
    LET cache == [client |-> NULL, enabled |-> FALSE, ttl |-> ttlSeconds,
                  opened |-> 0, pings |-> 0, closes |-> 0,
                  ret |-> "cache", err |-> NoErr, log |-> ""]
    IN  IF ~en THEN [cache EXCEPT !.log = "disabled (REDIS_ENABLED=false)"]
        ELSE IF redisURL = EmptyURL
             THEN [cache EXCEPT !.log = "disabled (REDIS_URL not set)"]
        ELSE IF ParseURL(redisURL).err # NoErr
             THEN [cache EXCEPT !.ret = NULL, !.err = ParseURL(redisURL).err,
                                !.log = "failed to parse URL"]
        ELSE IF ~pingOK
             THEN [cache EXCEPT !.opened = 1, !.pings = 1, !.closes = 1,
                                !.log = "connection failed"]
        ELSE [cache EXCEPT !.opened = 1, !.pings = 1, !.client = Client,
                           !.enabled = TRUE, !.log = "enabled"]

\* The handle is stored before the ping and stays stored when the ping fails.
NewCacheKeepsHandle(redisURL, en, ttlSeconds, pingOK) ==
    LET cache == [client |-> NULL, enabled |-> FALSE, ttl |-> ttlSeconds,
                  opened |-> 0, pings |-> 0, closes |-> 0,
                  ret |-> "cache", err |-> NoErr, log |-> ""]
    IN  IF ~en THEN [cache EXCEPT !.log = "disabled (REDIS_ENABLED=false)"]
        ELSE IF redisURL = EmptyURL
             THEN [cache EXCEPT !.log = "disabled (REDIS_URL not set)"]
        ELSE IF ParseURL(redisURL).err # NoErr
             THEN [cache EXCEPT !.log = "failed to parse URL"]
        ELSE IF ~pingOK
             THEN [cache EXCEPT !.opened = 1, !.pings = 1, !.closes = 1,
                                !.client = Client, !.log = "connection failed"]
        ELSE [cache EXCEPT !.opened = 1, !.pings = 1, !.client = Client,
                           !.enabled = TRUE, !.log = "enabled"]

\* The flag is raised as soon as the URL has parsed, before the ping.
NewCacheEnablesEarly(redisURL, en, ttlSeconds, pingOK) ==
    LET cache == [client |-> NULL, enabled |-> FALSE, ttl |-> ttlSeconds,
                  opened |-> 0, pings |-> 0, closes |-> 0,
                  ret |-> "cache", err |-> NoErr, log |-> ""]
    IN  IF ~en THEN [cache EXCEPT !.log = "disabled (REDIS_ENABLED=false)"]
        ELSE IF redisURL = EmptyURL
             THEN [cache EXCEPT !.log = "disabled (REDIS_URL not set)"]
        ELSE IF ParseURL(redisURL).err # NoErr
             THEN [cache EXCEPT !.log = "failed to parse URL"]
        ELSE IF ~pingOK
             THEN [cache EXCEPT !.opened = 1, !.pings = 1, !.closes = 1,
                                !.enabled = TRUE, !.log = "connection failed"]
        ELSE [cache EXCEPT !.opened = 1, !.pings = 1, !.client = Client,
                           !.enabled = TRUE, !.log = "enabled"]

\* The instance, the collaborator calls and the return of
\* NewCache(redisURL, en, ttlSeconds) when the ping answers pingOK.
NewCacheOutcome(redisURL, en, ttlSeconds, pingOK) ==
    LET cache == [client |-> NULL, enabled |-> FALSE, ttl |-> ttlSeconds,
                  opened |-> 0, pings |-> 0, closes |-> 0,
                  ret |-> "cache", err |-> NoErr, log |-> ""]
    IN  IF ~en THEN [cache EXCEPT !.log = "disabled (REDIS_ENABLED=false)"]
        ELSE IF redisURL = EmptyURL
             THEN [cache EXCEPT !.log = "disabled (REDIS_URL not set)"]
        ELSE IF ParseURL(redisURL).err # NoErr
             THEN [cache EXCEPT !.log = "failed to parse URL"]
        ELSE IF ~pingOK
             THEN [cache EXCEPT !.opened = 1, !.pings = 1, !.closes = 1,
                                !.log = "connection failed"]
        ELSE [cache EXCEPT !.opened = 1, !.pings = 1, !.client = Client,
                           !.enabled = TRUE, !.log = "enabled"]

NewCache(redisURL, en, ttlSeconds, pingOK) ==
    LET o == NewCacheOutcome(redisURL, en, ttlSeconds, pingOK)
    IN  /\ ~created
        /\ args' = [redisURL |-> redisURL, enabled |-> en, ttlSeconds |-> ttlSeconds,
                    pingOK |-> pingOK]
        /\ client' = o.client
        /\ enabled' = o.enabled
        /\ ttl' = o.ttl
        /\ opened' = o.opened
        /\ pings' = o.pings
        /\ closes' = o.closes
        /\ newRet' = [cache |-> o.ret, err |-> o.err, log |-> o.log]
        /\ UNCHANGED <<calls, store, cur, lastRet, failed, stale, keyRet, keyPrev>>

(***************************************************************************)
(* The operations.  Each of Get, Set and Delete is three steps: the        *)
(* Enabled() check, the command sent through the client, and the handling  *)
(* of the reply.                                                           *)
(***************************************************************************)
Ret(op, b, err, val, log) ==
    [op |-> op, bool |-> b, err |-> err, val |-> val, log |-> log]

NoneInFlight == \A c \in Callers : cur[c] = Idle

\* Under sequential use each operation happens before the next one, so the
\* next one sees every write of this one.
Ordered == stale' = {}

\* A command on a handle that Close has released fails in the client.
Closed == closes > 0

\* func (c *Cache) Enabled(), called by the application.
IsEnabled(c) ==
    /\ created /\ cur[c] = Idle
    /\ lastRet' = Ret("enabled", EnabledSeenBy(c), NoErr, NoVal, "")
    /\ UNCHANGED <<client, enabled, ttl, args, newRet, opened, pings, closes,
                   calls, store, cur, failed>>
    /\ UNCHANGED <<stale, keyRet, keyPrev>>

\* Variant of CloseOutcome that drops the error of client.Close().
CloseSwallowsError(handle, already, relErr) ==
    [released |-> IF handle = NULL THEN 0 ELSE 1, err |-> NoErr]

\* client.Close(): the first release may fail; a second one reports that the
\* client is closed already.
CloseOutcome(handle, already, relErr) ==
    IF handle = NULL THEN [released |-> 0, err |-> NoErr]
    ELSE [released |-> 1,
          err |-> IF already THEN ErrClosed ELSE relErr]

\* Variant of Close that forgets the handle once it is released.
CloseClearsHandle(c) ==
    /\ created /\ cur[c] = Idle
    /\ \E relErr \in {NoErr, "close: i/o error"} :
         LET o == CloseOutcome(client, Closed, relErr)
         IN  /\ closes + o.released <= MaxCloses
             /\ closes' = closes + o.released
             /\ lastRet' = Ret("close", FALSE, o.err, NoVal, "")
    /\ client' = NULL
    /\ UNCHANGED <<enabled, ttl, args, newRet, opened, pings, calls,
                   store, cur, failed>>
    /\ UNCHANGED <<stale, keyRet, keyPrev>>

\* func (c *Cache) Close() error
Close(c) ==
    /\ created /\ cur[c] = Idle
    /\ \E relErr \in {NoErr, "close: i/o error"} :
         LET o == CloseOutcome(client, Closed, relErr)
         IN  /\ closes + o.released <= MaxCloses
             /\ closes' = closes + o.released
             /\ lastRet' = Ret("close", FALSE, o.err, NoVal, "")
    /\ UNCHANGED <<client, enabled, ttl, args, newRet, opened, pings, calls,
                   store, cur, failed>>
    /\ UNCHANGED <<stale, keyRet, keyPrev>>

\* Variant of Begin that tries the handle again once the flag is down.
BeginRetries(c, op, key, arg) ==
    /\ created /\ cur[c] = Idle
    /\ IF client = NULL
       THEN /\ lastRet' = Ret(op, FALSE, NoErr, NoVal, "")
            /\ UNCHANGED <<cur, enabled>>
       ELSE /\ cur' = [cur EXCEPT ![c] = [op |-> op, st |-> "checked",
                                          key |-> key, arg |-> arg]]
            /\ enabled' = TRUE
            /\ UNCHANGED lastRet
    /\ UNCHANGED <<client, ttl, args, newRet, opened, pings, closes,
                   calls, store, failed>>
    /\ UNCHANGED <<stale, keyRet, keyPrev>>

\* Variant of Begin that pings the store again when the instance is disabled.
BeginReconnects(c, op, key, arg) ==
    /\ created /\ cur[c] = Idle
    /\ IF ~EnabledSeenBy(c)
       THEN /\ lastRet' = Ret(op, FALSE, NoErr, NoVal, "")
            /\ pings' = pings + 1
            /\ UNCHANGED cur
       ELSE /\ cur' = [cur EXCEPT ![c] = [op |-> op, st |-> "checked",
                                          key |-> key, arg |-> arg]]
            /\ UNCHANGED <<lastRet, pings>>
    /\ UNCHANGED <<client, enabled, ttl, args, newRet, opened, closes,
                   calls, store, failed>>
    /\ UNCHANGED <<stale, keyRet, keyPrev>>

\* Variant of Begin in which Delete has no Enabled() check.
BeginDeleteUnchecked(c, op, key, arg) ==
    /\ created /\ cur[c] = Idle
    /\ IF ~EnabledSeenBy(c) /\ op # "delete"
       THEN /\ lastRet' = Ret(op, FALSE, NoErr, NoVal, "")
            /\ UNCHANGED cur
       ELSE /\ cur' = [cur EXCEPT ![c] = [op |-> op, st |-> "checked",
                                          key |-> key, arg |-> arg]]
            /\ UNCHANGED lastRet
    /\ UNCHANGED <<client, enabled, ttl, args, newRet, opened, pings, closes,
                   calls, store, failed>>
    /\ UNCHANGED <<stale, keyRet, keyPrev>>

\* The `if !c.Enabled() { return ... }` that opens Get, Set and Delete.
Begin(c, op, key, arg) ==
    /\ created /\ cur[c] = Idle
    /\ IF ~EnabledSeenBy(c)
       THEN /\ lastRet' = Ret(op, FALSE, NoErr, NoVal, "")
            /\ UNCHANGED cur
       ELSE /\ cur' = [cur EXCEPT ![c] = [op |-> op, st |-> "checked",
                                          key |-> key, arg |-> arg]]
            /\ UNCHANGED lastRet
    /\ UNCHANGED <<client, enabled, ttl, args, newRet, opened, pings, closes,
                   calls, store, failed>>
    /\ UNCHANGED <<stale, keyRet, keyPrev>>

GetBegin(c, key, shape) == Begin(c, "get", key, shape)
SetBegin(c, key, value) == Begin(c, "set", key, value)
DeleteBegin(c, key) == Begin(c, "delete", key, NoVal)

\* A store-level failure: any error of a command other than redis.Nil.
StoreFailure(reply) == reply.err \notin {NoErr, RedisNil}

\* The replies c.client.Get(ctx, key).Result() can give.
GetReplies(key) ==
    IF Closed THEN {[err |-> ErrClosed, val |-> <<>>, src |-> NoVal]}
    ELSE {[err |-> ErrTimeout, val |-> <<>>, src |-> NoVal],
          IF store[key] = Absent
          THEN [err |-> RedisNil, val |-> <<>>, src |-> NoVal]
          ELSE [err |-> NoErr, val |-> store[key].data, src |-> store[key].src]}

\* The replies a SET or DEL can give, with whether the store applied it: a
\* command that times out may or may not have reached the store.
WriteReplies ==
    IF Closed THEN {[err |-> ErrClosed, applied |-> FALSE]}
    ELSE {[err |-> NoErr, applied |-> TRUE],
          [err |-> ErrTimeout, applied |-> TRUE],
          [err |-> ErrTimeout, applied |-> FALSE]}

Sent(c, reply) == [cur EXCEPT ![c] = [@ EXCEPT !.st = "called"] @@ [reply |-> reply]]

\* val, err := c.client.Get(ctx, key).Result()
GetCall(c) ==
    /\ cur[c].op = "get" /\ cur[c].st = "checked"
    /\ calls < MaxCalls
    /\ calls' = calls + 1
    /\ \E reply \in GetReplies(cur[c].key) : cur' = Sent(c, reply)
    /\ UNCHANGED <<client, enabled, ttl, args, newRet, opened, pings, closes,
                   store, lastRet, failed>>
    /\ UNCHANGED <<stale, keyRet, keyPrev>>

\* Variant of GetOutcome without the errors.Is(err, redis.Nil) test: a miss
\* is handled as any other error.
GetMissDisables(reply, shape) ==
    IF reply.err # NoErr
    THEN [disable |-> TRUE, found |-> FALSE, err |-> NoErr, val |-> NoVal,
          log |-> "get error (disabling cache)"]
    ELSE LET u == Unmarshal(reply.val, shape)
         IN  IF u.err # NoErr
             THEN [disable |-> FALSE, found |-> FALSE, err |-> ErrUnmarshal,
                   val |-> NoVal, log |-> "unmarshal error"]
             ELSE [disable |-> FALSE, found |-> TRUE, err |-> NoErr, val |-> u.v,
                   log |-> "cache hit"]

\* Variant of GetOutcome that clears c.enabled on an unmarshal error too.
GetUnmarshalDisables(reply, shape) ==
    IF reply.err = RedisNil
    THEN [disable |-> FALSE, found |-> FALSE, err |-> NoErr, val |-> NoVal,
          log |-> "cache miss"]
    ELSE IF reply.err # NoErr
    THEN [disable |-> TRUE, found |-> FALSE, err |-> NoErr, val |-> NoVal,
          log |-> "get error (disabling cache)"]
    ELSE LET u == Unmarshal(reply.val, shape)
         IN  IF u.err # NoErr
             THEN [disable |-> TRUE, found |-> FALSE, err |-> ErrUnmarshal,
                   val |-> NoVal, log |-> "unmarshal error"]
             ELSE [disable |-> FALSE, found |-> TRUE, err |-> NoErr, val |-> u.v,
                   log |-> "cache hit"]

\* What Get does with the reply: whether it clears c.enabled, and its return.
GetOutcome(reply, shape) ==
    IF reply.err = RedisNil
    THEN [disable |-> FALSE, found |-> FALSE, err |-> NoErr, val |-> NoVal,
          log |-> "cache miss"]
    ELSE IF reply.err # NoErr
    THEN [disable |-> TRUE, found |-> FALSE, err |-> NoErr, val |-> NoVal,
          log |-> "get error (disabling cache)"]
    ELSE LET u == Unmarshal(reply.val, shape)
         IN  IF u.err # NoErr
             THEN [disable |-> FALSE, found |-> FALSE, err |-> ErrUnmarshal,
                   val |-> NoVal, log |-> "unmarshal error"]
             ELSE [disable |-> FALSE, found |-> TRUE, err |-> NoErr, val |-> u.v,
                   log |-> "cache hit"]

\* The writes to c.enabled that goroutine c's assignment can leave unseen:
\* c sees its own write; after the first write of false any other goroutine
\* may go on reading true.
StaleAfter(c, disable) ==
    IF ~disable THEN {stale}
    ELSE IF enabled THEN SUBSET (Callers \ {c})
    ELSE {stale \ {c}}

Finish(c, o) ==
    /\ enabled' = IF o.disable THEN FALSE ELSE enabled
    /\ stale' \in StaleAfter(c, o.disable)
    /\ failed' = (failed \/ StoreFailure(cur[c].reply))
    /\ lastRet' = Ret(cur[c].op, o.found, o.err, o.val, o.log)
    /\ cur' = [cur EXCEPT ![c] = Idle]

GetEnd(c) ==
    /\ cur[c].op = "get" /\ cur[c].st = "called"
    /\ Finish(c, GetOutcome(cur[c].reply, cur[c].arg))
    /\ UNCHANGED <<client, ttl, args, newRet, opened, pings, closes, calls, store>>
    /\ UNCHANGED keyVars

\* Variant of SetMarshal that writes null for a value it cannot encode.
SetMarshalLenient(value) ==
    IF CanEncode(value) THEN [err |-> NoErr, data |-> Encode(value)]
    ELSE [err |-> NoErr, data |-> <<Tok("null")>>]

\* data, err := json.Marshal(value); on an error Set returns it and sends
\* nothing.
SetMarshal(value) == Marshal(value)

\* Variant of SetEntry that passes no expiry.
SetEntryNoExpiry(data, expiry, value) == [data |-> data, exp |-> 0, src |-> value]

\* The entry c.client.Set(ctx, key, data, c.ttl) asks the store to hold.
SetEntry(data, expiry, value) == [data |-> data, exp |-> expiry, src |-> value]

\* The middle of Set: marshal, then c.client.Set(ctx, key, data, c.ttl).
SetCall(c) ==
    /\ cur[c].op = "set" /\ cur[c].st = "checked"
    /\ LET m == SetMarshal(cur[c].arg)
           k == cur[c].key
       IN  IF m.err # NoErr
           THEN /\ lastRet' = Ret("set", FALSE, ErrMarshal, NoVal, "marshal error")
                /\ cur' = [cur EXCEPT ![c] = Idle]
                /\ UNCHANGED <<calls, store>>
           ELSE /\ calls < MaxCalls
                /\ calls' = calls + 1
                /\ \E reply \in WriteReplies :
                     /\ store' = IF reply.applied
                                 THEN [store EXCEPT ![k] = SetEntry(m.data, ttl, cur[c].arg)]
                                 ELSE store
                     /\ cur' = Sent(c, reply)
                /\ UNCHANGED lastRet
    /\ UNCHANGED <<client, enabled, ttl, args, newRet, opened, pings, closes, failed>>
    /\ UNCHANGED <<stale, keyRet, keyPrev>>

\* What Set and Delete do with the reply of the command.
WriteOutcome(reply, okLog, errLog) ==
    IF reply.err # NoErr
    THEN [disable |-> TRUE, found |-> FALSE, err |-> NoErr, val |-> NoVal, log |-> errLog]
    ELSE [disable |-> FALSE, found |-> FALSE, err |-> NoErr, val |-> NoVal, log |-> okLog]

\* Variant of SetOutcome that hands the store's error to the caller.
SetReturnsStoreError(reply) ==
    IF reply.err # NoErr
    THEN [disable |-> TRUE, found |-> FALSE, err |-> reply.err, val |-> NoVal,
          log |-> "set error (disabling cache)"]
    ELSE [disable |-> FALSE, found |-> FALSE, err |-> NoErr, val |-> NoVal,
          log |-> "cache set"]

SetOutcome(reply) == WriteOutcome(reply, "cache set", "set error (disabling cache)")

SetEnd(c) ==
    /\ cur[c].op = "set" /\ cur[c].st = "called"
    /\ Finish(c, SetOutcome(cur[c].reply))
    /\ UNCHANGED <<client, ttl, args, newRet, opened, pings, closes, calls, store>>
    /\ UNCHANGED keyVars

\* c.client.Del(ctx, key).Err()
DeleteCall(c) ==
    /\ cur[c].op = "delete" /\ cur[c].st = "checked"
    /\ calls < MaxCalls
    /\ calls' = calls + 1
    /\ \E reply \in WriteReplies :
         /\ store' = IF reply.applied THEN [store EXCEPT ![cur[c].key] = Absent]
                     ELSE store
         /\ cur' = Sent(c, reply)
    /\ UNCHANGED <<client, enabled, ttl, args, newRet, opened, pings, closes,
                   lastRet, failed>>
    /\ UNCHANGED <<stale, keyRet, keyPrev>>

\* Variant of DeleteOutcome that leaves the flag alone on an error.
DeleteKeepsEnabled(reply) ==
    [disable |-> FALSE, found |-> FALSE, err |-> NoErr, val |-> NoVal,
     log |-> IF reply.err # NoErr THEN "delete error" ELSE "cache deleted"]

DeleteOutcome(reply) ==
    WriteOutcome(reply, "cache deleted", "delete error (disabling cache)")

DeleteEnd(c) ==
    /\ cur[c].op = "delete" /\ cur[c].st = "called"
    /\ Finish(c, DeleteOutcome(cur[c].reply))
    /\ UNCHANGED <<client, ttl, args, newRet, opened, pings, closes, calls, store>>
    /\ UNCHANGED keyVars

\* The store drops an entry written with a positive expiry; a SET with a
\* zero expiry holds its entry until it is deleted.
Expire(key) ==
    /\ store[key] # Absent /\ store[key].exp > 0
    /\ store' = [store EXCEPT ![key] = Absent]
    /\ UNCHANGED <<client, enabled, ttl, args, newRet, opened, pings, closes,
                   calls, cur, lastRet, failed>>
    /\ UNCHANGED <<stale, keyRet, keyPrev>>

(***************************************************************************)
(* Spec: one instance used by its callers one operation at a time.         *)
(***************************************************************************)
Next ==
    \/ \E u \in URLs, en \in BOOLEAN, t \in TTLSeconds, pingOK \in BOOLEAN :
         NewCache(u, en, t, pingOK)
    \/ \E c \in Callers : NoneInFlight /\ IsEnabled(c)
    \/ \E c \in Callers : NoneInFlight /\ Close(c)
    \/ \E c \in Callers, k \in Keys, s \in Shapes : NoneInFlight /\ GetBegin(c, k, s)
    \/ \E c \in Callers, k \in Keys, v \in Values : NoneInFlight /\ SetBegin(c, k, v)
    \/ \E c \in Callers, k \in Keys : NoneInFlight /\ DeleteBegin(c, k)
    \/ \E c \in Callers : GetCall(c)
    \/ \E c \in Callers : GetEnd(c) /\ Ordered
    \/ \E c \in Callers : SetCall(c)
    \/ \E c \in Callers : SetEnd(c) /\ Ordered
    \/ \E c \in Callers : DeleteCall(c)
    \/ \E c \in Callers : DeleteEnd(c) /\ Ordered
    \/ \E k \in Keys : Expire(k)

Spec == Init /\ [][Next]_vars

(***************************************************************************)
(* ConcSpec: the goroutines call into the instance concurrently, with no   *)
(* synchronisation between them.                                           *)
(***************************************************************************)
\* The last write to c.enabled becomes visible to goroutine c.
Sync(c) ==
    /\ c \in stale
    /\ stale' = stale \ {c}
    /\ UNCHANGED <<client, enabled, ttl, args, newRet, opened, pings, closes,
                   calls, store, cur, lastRet, failed, keyRet, keyPrev>>

ConcKeys == {"k1"}
ConcValues == {VUnicode, GoChan}
ConcShapes == {"string", "int"}

ConcNext ==
    \/ \E u \in URLs, en \in BOOLEAN, t \in TTLSeconds, pingOK \in BOOLEAN :
         NewCache(u, en, t, pingOK)
    \/ \E c \in Callers : IsEnabled(c)
    \/ \E c \in Callers : Close(c)
    \/ \E c \in Callers, k \in ConcKeys, s \in ConcShapes : GetBegin(c, k, s)
    \/ \E c \in Callers, k \in ConcKeys, v \in ConcValues : SetBegin(c, k, v)
    \/ \E c \in Callers, k \in ConcKeys : DeleteBegin(c, k)
    \/ \E c \in Callers : GetCall(c)
    \/ \E c \in Callers : GetEnd(c)
    \/ \E c \in Callers : SetCall(c)
    \/ \E c \in Callers : SetEnd(c)
    \/ \E c \in Callers : DeleteCall(c)
    \/ \E c \in Callers : DeleteEnd(c)
    \/ \E k \in ConcKeys : Expire(k)
    \/ \E c \in Callers : Sync(c)

ConcSpec == Init /\ [][ConcNext]_vars

(***************************************************************************)
(* GenerateCacheKey and the arguments the model calls it with.             *)
(***************************************************************************)
StrUser == <<117, 115, 101, 114>>
KeyPrefixes == {<<>>, StrUser}

VMapInt2 == GoMap([k \in {StrId} |-> GoInt(2)])
VReplacement == GoString(ReplacementRune)
KeyParams ==
    {VMapInt, VMapInt2, GoInt(1), GoFloat(1), VBadUTF8, VReplacement,
     GoChan, GoSlice(<<GoChan>>)}

\* The digests of the byte strings the model hashes, computed once.
sha256Sums ==
    [d \in {EncodeText(v) : v \in {x \in KeyParams : CanEncode(x)}} \cup KeyPrefixes
        |-> Sum256(d)]
Sum256Of(data) == IF data \in DOMAIN sha256Sums THEN sha256Sums[data] ELSE Sum256(data)

StrColon == <<58>>
StrFallback == <<102, 97, 108, 108, 98, 97, 99, 107>>

\* Variant that never looks at the error of json.Marshal.
GenerateCacheKeyIgnoresError(prefix, params) ==
    prefix \o StrColon \o EncodeToString(Sum256Of(MarshalText(params).data))

\* Variant that hashes the prefix in place of the serialised params.
GenerateCacheKeyHashesPrefix(prefix, params) ==
    IF MarshalText(params).err # NoErr THEN prefix \o StrColon \o StrFallback
    ELSE prefix \o StrColon \o EncodeToString(Sum256Of(prefix))

\* func GenerateCacheKey(prefix string, params interface{}) string
GenerateCacheKey(prefix, params) ==
    LET m == MarshalText(params)
    IN  IF m.err # NoErr THEN prefix \o StrColon \o StrFallback
        ELSE prefix \o StrColon \o EncodeToString(Sum256Of(m.data))

\* A call of GenerateCacheKey, made in whatever state the instance is in.
CallGenerateCacheKey(prefix, params) ==
    /\ keyPrev' = keyRet
    /\ keyRet' = [prefix |-> prefix, params |-> params,
                  key |-> GenerateCacheKey(prefix, params), enabled |-> Enabled]
    /\ UNCHANGED <<client, enabled, ttl, args, newRet, opened, pings, closes,
                   calls, store, cur, lastRet, failed, stale>>

KeyNext ==
    \/ \E u \in URLs, en \in BOOLEAN, t \in TTLSeconds, pingOK \in BOOLEAN :
         NewCache(u, en, t, pingOK)
    \/ \E p \in KeyPrefixes, v \in KeyParams : CallGenerateCacheKey(p, v)

KeySpec == Init /\ [][KeyNext]_vars

(***************************************************************************)
(* Properties.                                                             *)
(***************************************************************************)
Ops == {"get", "set", "delete"}

\* C1: once a Get, Set or Delete has seen a store-level failure (a command
\* error other than redis.Nil), Enabled() is false and every Enabled() call
\* made afterwards returns false, and no Get, Set or Delete that starts
\* afterwards gets past its Enabled() check: no command is sent.
C1_NoCommandAfterStoreFailure ==
    /\ [](failed => ~Enabled /\ (lastRet.op = "enabled" => ~lastRet.bool))
    /\ [][failed => calls' = calls /\ cur' = cur]_vars

\* An Enabled() call made after a failure, with commands still within the cap.
C1_Witness ==
    failed /\ lastRet.op = "enabled" /\ calls < MaxCalls /\ closes = 0

C3_DisabledByConfig ==
    created /\ (~args.enabled \/ args.redisURL = EmptyURL)
        => /\ client = NULL /\ ~enabled /\ ~Enabled
           /\ opened = 0 /\ pings = 0
           /\ (lastRet.op = "enabled" => ~lastRet.bool)

\* enabled = false with a URL that parses and a store that would answer.
C3_Witness ==
    /\ created /\ ~args.enabled /\ args.pingOK
    /\ ParseURL(args.redisURL).err = NoErr
    /\ lastRet.op = "enabled"

\* The branch of NewCache on which the ping succeeds.
PingSucceeded ==
    /\ args.enabled /\ args.redisURL # EmptyURL
    /\ ParseURL(args.redisURL).err = NoErr /\ args.pingOK

\* C4: NewCache returns a non-nil *Cache and a nil error on every branch, and
\* the instance it returns is enabled exactly on the branch where the ping
\* succeeds; an instance from any other branch is never enabled.
C4_NewCacheNeverFails ==
    /\ [](created => /\ newRet.cache # NULL /\ newRet.err = NoErr
                     /\ (~PingSucceeded => ~Enabled))
    /\ [][~created /\ created' => (Enabled' <=> PingSucceeded')]_vars

\* NewCache returned from the branch on which the URL does not parse.
C4_Witness ==
    /\ created /\ args.enabled /\ args.redisURL # EmptyURL
    /\ ParseURL(args.redisURL).err # NoErr

\* The branch of NewCache on which the client was made and the ping failed.
PingFailed ==
    /\ created /\ args.enabled /\ args.redisURL # EmptyURL
    /\ ParseURL(args.redisURL).err = NoErr /\ ~args.pingOK

\* C5: when the ping in NewCache fails, the client NewCache made is closed
\* exactly once, the instance holds no client and Enabled() is false; a
\* later Close() on it closes nothing and returns nil.
C5_PingFailureReleasesOnce ==
    PingFailed
        => /\ opened = 1 /\ pings = 1 /\ closes = 1
           /\ client = NULL /\ ~Enabled
           /\ (lastRet.op = "close" => lastRet.err = NoErr)
           /\ (lastRet.op = "enabled" => ~lastRet.bool)

\* Close() was called on an instance whose ping had failed.
C5_Witness == PingFailed /\ lastRet.op = "close"

\* C6: on an instance whose Enabled() is false, Get returns (false, nil) and
\* Set and Delete return nil at once: no command is sent, the store is not
\* touched by the operation, and enabled, client and ttl keep their values.
C6_DisabledOperationsAreNoOps ==
    [][created /\ ~Enabled
         => /\ calls' = calls /\ cur' = cur
            /\ enabled' = enabled /\ client' = client /\ ttl' = ttl
            /\ (lastRet' # lastRet /\ lastRet'.op \in Ops
                  => /\ lastRet' = Ret(lastRet'.op, FALSE, NoErr, NoVal, "")
                     /\ store' = store)]_vars

\* A Delete returned from an instance that a failure had disabled.
C6_Witness ==
    /\ created /\ ~Enabled /\ client # NULL
    /\ lastRet = Ret("delete", FALSE, NoErr, NoVal, "")

\* The step on which caller c's Get, Set or Delete handles the reply.
Returns(c, op) == cur[c].op = op /\ cur[c].st = "called" /\ cur'[c] = Idle

\* C7: on an available instance a Get whose read reports redis.Nil returns
\* (false, nil) and leaves enabled true; a Get whose read reports any other
\* error returns the same (false, nil) and sets enabled to false; nothing
\* else of the instance or the store changes in either case.
C7_MissVersusStoreError ==
    [][\A c \in Callers :
         Returns(c, "get") /\ Enabled
           => /\ cur[c].reply.err = RedisNil
                  => /\ lastRet' = Ret("get", FALSE, NoErr, NoVal, "cache miss")
                     /\ enabled' /\ Enabled'
              /\ StoreFailure(cur[c].reply)
                  => /\ lastRet'.op = "get" /\ ~lastRet'.bool
                     /\ lastRet'.err = NoErr /\ lastRet'.val = NoVal
                     /\ ~enabled' /\ ~Enabled'
              /\ UNCHANGED <<client, ttl, store, calls, closes>>]_vars

\* A Get saw a store error on a handle that was never closed.
C7_Witness ==
    /\ lastRet.op = "get" /\ lastRet.log = "get error (disabling cache)"
    /\ ~enabled /\ closes = 0

\* C8: Get returns no error but an unmarshal error, Set none but a marshal
\* error, Delete none at all; a Get returns an error only when the read
\* succeeded; and a Get, Set or Delete whose command failed returns nil and
\* leaves enabled false.
C8_StoreErrorsAreSwallowed ==
    /\ [](/\ lastRet.op = "get" => lastRet.err \in {NoErr, ErrUnmarshal}
          /\ lastRet.op = "set" => lastRet.err \in {NoErr, ErrMarshal}
          /\ lastRet.op = "delete" => lastRet.err = NoErr)
    /\ [][\A c \in Callers, op \in Ops :
            Returns(c, op)
              => /\ StoreFailure(cur[c].reply) => lastRet'.err = NoErr /\ ~enabled'
                 /\ lastRet'.err # NoErr => cur[c].reply.err = NoErr]_vars

\* A Set whose write failed returned nil.
C8_Witness ==
    /\ lastRet.op = "set" /\ lastRet.log = "set error (disabling cache)"
    /\ lastRet.err = NoErr /\ ~enabled

\* C9: a Get whose read succeeds but whose payload does not unmarshal into
\* the destination returns (false, error) and leaves enabled as it was; a
\* Set whose value does not marshal returns an error, sends nothing and
\* leaves enabled as it was; Enabled() is still true after either.
C9_DataErrorsKeepAvailability ==
    [][\A c \in Callers :
         /\ ( /\ Returns(c, "get") /\ cur[c].reply.err = NoErr
              /\ Unmarshal(cur[c].reply.val, cur[c].arg).err # NoErr )
              => /\ lastRet' = Ret("get", FALSE, ErrUnmarshal, NoVal, "unmarshal error")
                 /\ enabled' = enabled /\ (Enabled => Enabled')
         /\ ( /\ cur[c].op = "set" /\ cur[c].st = "checked" /\ cur'[c] # cur[c]
              /\ Marshal(cur[c].arg).err # NoErr )
              => /\ lastRet' = Ret("set", FALSE, ErrMarshal, NoVal, "marshal error")
                 /\ cur'[c] = Idle /\ calls' = calls
                 /\ enabled' = enabled /\ (Enabled => Enabled')]_vars

\* A Get returned an unmarshal error and the instance is still available.
C9_Witness ==
    lastRet = Ret("get", FALSE, ErrUnmarshal, NoVal, "unmarshal error") /\ Enabled

\* Caller c's Get handles a successful read of an entry that a Set wrote,
\* into a fresh destination of the type of the value that was set.
RoundTrip(c) ==
    /\ Returns(c, "get") /\ cur[c].reply.err = NoErr
    /\ cur[c].reply.src # NoVal
    /\ cur[c].arg = ShapeOf(cur[c].reply.src)

RECURSIVE ValidUTF8(_, _), JSONNative(_)
ValidUTF8(s, i) ==
    IF i > Len(s) THEN TRUE
    ELSE RuneLen(s, i) > 0 /\ ValidUTF8(s, i + RuneLen(s, i))

\* The Go values the decoder produces for interface{}: nil, bool, float64,
\* strings of valid UTF-8, and non-nil []interface{} and
\* map[string]interface{} of such values.
JSONNative(v) ==
    CASE v.t \in {"nil", "bool", "float64"} -> TRUE
      [] v.t = "string" -> ValidUTF8(v.s, 1)
      [] v.t = "slice" /\ "e" \in DOMAIN v ->
           \A i \in 1 .. Len(v.e) : JSONNative(v.e[i])
      [] v.t = "map" /\ "m" \in DOMAIN v ->
           \A k \in DOMAIN v.m : ValidUTF8(k, 1) /\ JSONNative(v.m[k])
      [] OTHER -> FALSE

C11_EnabledImpliesClient ==
    /\ [](enabled => client # NULL)
    /\ [][lastRet'.op = "enabled" /\ lastRet' # lastRet
            => /\ lastRet'.bool = (enabled /\ client # NULL)
               /\ UNCHANGED <<client, enabled, ttl, opened, pings, closes, calls,
                              store, cur>>]_vars

\* Enabled() returned true on an instance whose ping succeeded.
C11_Witness == lastRet = Ret("enabled", TRUE, NoErr, NoVal, "") /\ PingSucceeded

\* The step of a Cache.Close() call.
CloseStep ==
    created /\ (closes' # closes \/ (lastRet'.op = "close" /\ lastRet' # lastRet))

\* C15: Close() on an instance with a client calls client.Close() exactly once
\* and returns what it returned (nil or an error; ErrClosed when the client
\* was closed before); Close() on an instance without a client calls nothing
\* and returns nil.
C15_ClosePropagates ==
    [][CloseStep
         => /\ lastRet'.op = "close"
            /\ client # NULL
                 => /\ closes' = closes + 1
                    /\ lastRet'.err \in {NoErr, "close: i/o error", ErrClosed}
                    /\ (closes > 0 <=> lastRet'.err = ErrClosed)
            /\ client = NULL => closes' = closes /\ lastRet'.err = NoErr]_vars

\* Close() handed the error of a first client.Close() to its caller.
C15_Witness ==
    lastRet = Ret("close", FALSE, "close: i/o error", NoVal, "") /\ client # NULL

\* C16: the store is pinged, and a client made, at most once and only by
\* NewCache: no step after NewCache has returned changes the number of pings
\* or of clients made, or the client field.
C16_PingOnlyInNewCache ==
    /\ [](pings <= 1 /\ opened <= 1)
    /\ [][created => pings' = pings /\ opened' = opened /\ client' = client]_vars

\* An operation returned from a disabled instance that had been pinged once.
C16_Witness ==
    /\ pings = 1 /\ ~Enabled /\ lastRet.op \in Ops /\ lastRet.log = ""

\* C17: in Set on an available instance, a value that does not marshal makes
\* Set return the marshal error with no command sent: the store, and so the
\* entry under the key, is as it was.
C17_MarshalBeforeWrite ==
    [][\A c \in Callers :
         ( /\ cur[c].op = "set" /\ cur[c].st = "checked" /\ cur'[c] # cur[c]
           /\ Marshal(cur[c].arg).err # NoErr )
           => /\ lastRet' = Ret("set", FALSE, ErrMarshal, NoVal, "marshal error")
              /\ calls' = calls /\ store' = store]_vars

\* A Set failed to marshal while both keys held an entry.
C17_Witness ==
    /\ lastRet = Ret("set", FALSE, ErrMarshal, NoVal, "marshal error")
    /\ \A k \in Keys : store[k] # Absent

C19_CloseKeepsAvailability ==
    [][CloseStep
         => /\ enabled' = enabled /\ client' = client
            /\ (Enabled' <=> Enabled)]_vars

\* Enabled() returned true after the client had been closed.
C19_Witness == closes > 0 /\ lastRet = Ret("enabled", TRUE, NoErr, NoVal, "")

(***************************************************************************)
(* C12: under concurrent use, once one call has met a store error and      *)
(* cleared c.enabled, the only operations that still reach the store are   *)
(* those that passed their Enabled() check before the flag was cleared:    *)
(* no operation passes the check while the flag in memory is false; an     *)
(* operation sends at most one command; the flag never turns true again;   *)
(* no operation returns a store-level error.  Checked under ConcSpec,      *)
(* where a goroutine's unsynchronised read of c.enabled may miss the       *)
(* write: the first conjunct fails.                                        *)
(***************************************************************************)
PassesCheck(c) == cur[c] = Idle /\ cur'[c] # Idle

SendsCommand(c) == cur[c] # Idle /\ cur[c].st = "checked" /\ cur'[c] # Idle /\ cur'[c].st = "called"

C12_NoCheckPassesAfterFlip ==
    [][\A c \in Callers : PassesCheck(c) => enabled]_vars

\* C12, the rest of the claim, which the race leaves standing: one command
\* at most per operation, the flag never set back, no store error returned.
C12_BoundedDoomedCalls ==
    /\ [][calls' # calls
            => /\ calls' = calls + 1
               /\ \E c \in Callers : SendsCommand(c)]_vars
    /\ [][\A c \in Callers :
            (cur[c] # Idle /\ cur[c].st = "called" /\ cur'[c] # cur[c])
                => cur'[c] = Idle]_vars
    /\ [][created => (enabled' => enabled)]_vars
    /\ [](lastRet.op \in Ops => lastRet.err \in {NoErr, ErrMarshal, ErrUnmarshal})

(***************************************************************************)
(* C13: GenerateCacheKey(prefix, params) returns prefix, a colon and       *)
(* "fallback" exactly when json.Marshal(params) fails, and otherwise       *)
(* prefix, a colon and 64 lower-case hex digits that spell the SHA-256     *)
(* digest of the bytes json.Marshal wrote; it returns nothing else.        *)
(***************************************************************************)
HexDigits == {hextable[i] : i \in 1 .. 16}

\* The value of a hex digit, and the bytes a string of hex digits spells.
HexVal(c) == IF c >= 97 THEN c - 87 ELSE c - 48
RECURSIVE DecodeString(_)
DecodeString(t) ==
    IF Len(t) < 2 THEN <<>>
    ELSE <<16 * HexVal(t[1]) + HexVal(t[2])>> \o DecodeString(SubSeq(t, 3, Len(t)))

\* What follows "prefix:" in the key of a recorded call.
KeySuffix(r) == SubSeq(r.key, Len(r.prefix) + 2, Len(r.key))

KeyShape(r) ==
    /\ Len(r.key) > Len(r.prefix)
    /\ SubSeq(r.key, 1, Len(r.prefix)) = r.prefix
    /\ r.key[Len(r.prefix) + 1] = 58
    /\ (KeySuffix(r) = StrFallback) <=> ~CanEncode(r.params)
    /\ CanEncode(r.params)
        => /\ Len(KeySuffix(r)) = 64
           /\ \A i \in 1 .. 64 : KeySuffix(r)[i] \in HexDigits
           /\ DecodeString(KeySuffix(r)) = Sum256Of(EncodeText(r.params))

C13_TwoOutputShapes == keyRet # NoKey => KeyShape(keyRet)

\* The keys a Go program prints for GenerateCacheKey("user",
\* map[string]interface{}{"id": 1}), "user:" and the hex SHA-256 of {"id":1},
\* and for GenerateCacheKey("", "\xff"), ":" and the hex SHA-256 of the
\* eight characters quote, backslash, u, f, f, f, d, quote.
RefKeyUserId1 == <<
    117, 115, 101, 114, 58, 48, 51, 55, 99, 57, 50, 49, 52, 101, 101, 102,
    55, 52, 99, 99, 51, 56, 56, 55, 102, 51, 97, 52, 102, 48, 56, 53,
    98, 52, 101, 49, 55, 100, 55, 54, 50, 56, 48, 100, 97, 102, 100, 50,
    55, 51, 98, 48, 101, 101, 49, 54, 48, 99, 48, 57, 99, 52, 98, 97,
    49, 99, 102, 100, 52>>
RefKeyBadUTF8 == <<
    58, 50, 49, 55, 52, 97, 52, 99, 48, 101, 98, 53, 49, 97, 101, 98,
    100, 49, 50, 53, 56, 102, 100, 56, 53, 54, 57, 50, 100, 52, 54, 51,
    55, 57, 57, 49, 100, 97, 100, 56, 50, 51, 56, 54, 52, 55, 53, 99,
    100, 100, 98, 102, 57, 97, 52, 57, 54, 54, 97, 55, 100, 53, 100, 98,
    54>>

\* The two calls above were made one after the other.
C13_Witness ==
    /\ keyRet.prefix = StrUser /\ keyRet.params = VMapInt
    /\ keyRet.key = RefKeyUserId1
    /\ keyPrev.prefix = <<>> /\ keyPrev.params = VBadUTF8
    /\ keyPrev.key = RefKeyBadUTF8

(***************************************************************************)
(* C14: GenerateCacheKey is a pure function of its arguments: two calls    *)
(* with the same prefix and params return the same string whatever state   *)
(* the Cache instance is in and whatever was called before, a call changes *)
(* nothing of the instance, and two calls with the same prefix whose       *)
(* params serialise to different bytes return different strings.           *)
(***************************************************************************)
SerialisesDifferently(v1, v2) ==
    /\ CanEncode(v1)
    /\ CanEncode(v2)
    /\ EncodeText(v1) # EncodeText(v2)

C14_PureAndInjective ==
    /\ [](keyPrev # NoKey /\ keyRet.prefix = keyPrev.prefix
            => /\ keyRet.params = keyPrev.params => keyRet.key = keyPrev.key
               /\ SerialisesDifferently(keyRet.params, keyPrev.params)
                    => keyRet.key # keyPrev.key)
    /\ [][keyRet' # keyRet
            => UNCHANGED <<client, enabled, ttl, opened, pings, closes, calls, store>>]_vars

\* {"id": 2} was keyed while the cache was enabled, after {"id": 1} had been
\* keyed under the same prefix before NewCache.
C14_Witness ==
    /\ keyPrev.prefix = StrUser /\ keyPrev.params = VMapInt /\ ~keyPrev.enabled
    /\ keyRet.prefix = StrUser /\ keyRet.params = VMapInt2 /\ keyRet.enabled
    /\ keyRet.key # keyPrev.key

====
